---- MODULE Spec2Model ----
(***************************************************************************)
(* Model of calculator.py: the safe arithmetic evaluator eval_expr         *)
(* (input check, ast.parse, _ensure_allowed over ast.walk, compile, eval)  *)
(* and the recursive evaluator _eval_node.                                 *)
(*                                                                         *)
(* Text is a sequence of tokens (the lexer is not modelled character by    *)
(* character).  Python values are records [t, n, d]: an int n (d = 1), a   *)
(* float held as the exact rational n/d, a str, None, or one of two       *)
(* abstract values for results the rational model cannot hold.             *)
(***************************************************************************)
EXTENDS Integers, Sequences, FiniteSets, TLC

VARIABLES expr, pc, node, todo, seen, compiled, outcome

vars == <<expr, pc, node, todo, seen, compiled, outcome>>

(***************************************************************************)
(* Bounds of the model                                                     *)
(***************************************************************************)
\* integer literals of the two-operand texts are 0..MaxLit
MaxLit == 7
\* scaled-down stand-in for the host's recursion limit (1000 frames in
\* CPython): a tree nested deeper makes ast.parse raise RecursionError
RecursionLimit == 5
\* scaled-down stand-in for the tokenizer's limit on nested parentheses
\* (200 in CPython): beyond it ast.parse raises SyntaxError
MaxLevel == 3

(***************************************************************************)
(* Python values                                                           *)
(***************************************************************************)
Abs(x) == IF x < 0 THEN -x ELSE x

Sign(x) == IF x < 0 THEN -1 ELSE IF x = 0 THEN 0 ELSE 1

RECURSIVE GCD(_, _)
GCD(a, b) == IF b = 0 THEN a ELSE GCD(b, a % b)

RECURSIVE IPow(_, _)
IPow(b, e) == IF e = 0 THEN 1 ELSE b * IPow(b, e - 1)

IntVal(n) == [t |-> "int", n |-> n, d |-> 1]
StrVal == [t |-> "str", n |-> 0, d |-> 1]
NoneVal == [t |-> "NoneType", n |-> 0, d |-> 1]
\* a float that is not a rational the model holds (2 ** 0.5)
Inexact == [t |-> "float", n |-> 0, d |-> 0]
\* a complex result ((-8) ** 0.5)
ComplexVal == [t |-> "complex", n |-> 0, d |-> 0]
\* no value: the call has not returned one
NoVal == [t |-> "absent", n |-> 0, d |-> 1]

\* the number n/d (d > 0) in lowest terms, a float or an int
MkNum(isFloat, n, d) ==
    LET g == GCD(Abs(n), d)
    IN  [t |-> IF isFloat THEN "float" ELSE "int", n |-> n \div g, d |-> d \div g]

IsExact(v) == v.t \in {"int", "float"} /\ v.d > 0
IsZero(v) == IsExact(v) /\ v.n = 0
IsAbstract(v) == v.t = "complex" \/ (v.t = "float" /\ v.d = 0)

(***************************************************************************)
(* Outcomes of a call: still running, a returned value, a raised exception *)
(***************************************************************************)
Running == [status |-> "running", exc |-> "", msg |-> "", arg |-> "", val |-> NoVal]
Ret(v) == [status |-> "return", exc |-> "", msg |-> "", arg |-> "", val |-> v]
Raise(e, m, a) == [status |-> "raise", exc |-> e, msg |-> m, arg |-> a, val |-> NoVal]
ZeroDiv == Raise("ZeroDivisionError", "division by zero", "")
TypeErr == Raise("TypeError", "unsupported operand type(s)", "")

(***************************************************************************)
(* Python's arithmetic on int and float operands                           *)
(***************************************************************************)
\* l // r on ints, r # 0: the floor of the quotient
PyFloorDiv(l, r) == IF r > 0 THEN l \div r ELSE (-l) \div (-r)

\* a remainder that truncates toward zero: its sign follows the dividend
PyModTruncated(l, r) == Sign(l) * (Abs(l) % Abs(r))

\* l % r on ints, r # 0
PyMod(l, r) == IF r > 0 THEN l % r ELSE -((-l) % (-r))

\* l ** r on exact numbers
PyPow(l, r) ==
    LET fl == l.t = "float" \/ r.t = "float"
        e  == Abs(r.n)
    IN  IF r.d = 1
        THEN IF r.n >= 0
             THEN Ret(MkNum(fl, IPow(l.n, e), IPow(l.d, e)))
             ELSE IF l.n = 0
                  THEN ZeroDiv
                  ELSE Ret(MkNum(TRUE, IPow(Sign(l.n), e) * IPow(l.d, e),
                                 IPow(Abs(l.n), e)))
        ELSE IF l.n = 0
             THEN IF r.n > 0 THEN Ret(MkNum(TRUE, 0, 1)) ELSE ZeroDiv
             ELSE IF l.n = l.d
                  THEN Ret(MkNum(TRUE, 1, 1))
                  ELSE IF l.n > 0 THEN Ret(Inexact) ELSE Ret(ComplexVal)

\* a binary operator applied to two exact numbers
NumBinOp(op, l, r) ==
    LET fl == l.t = "float" \/ r.t = "float"
        q  == PyFloorDiv(l.n * r.d, l.d * r.n)
    IN  CASE op = "Add"  -> Ret(MkNum(fl, l.n * r.d + r.n * l.d, l.d * r.d))
          [] op = "Sub"  -> Ret(MkNum(fl, l.n * r.d - r.n * l.d, l.d * r.d))
          [] op = "Mult" -> Ret(MkNum(fl, l.n * r.n, l.d * r.d))
          [] op = "Div"  ->
                IF r.n = 0 THEN ZeroDiv
                ELSE Ret(MkNum(TRUE, l.n * r.d * Sign(r.n), l.d * Abs(r.n)))
          [] op = "FloorDiv" ->
                IF r.n = 0 THEN ZeroDiv ELSE Ret(MkNum(fl, q, 1))
          [] op = "Mod" ->
                IF r.n = 0 THEN ZeroDiv
                ELSE IF ~fl THEN Ret(IntVal(PyMod(l.n, r.n)))
                ELSE Ret(MkNum(TRUE, l.n * r.d - r.n * q * l.d, l.d * r.d))
          [] op = "Pow"  -> PyPow(l, r)
          [] OTHER -> TypeErr

\* a binary operator with an abstract (inexact float or complex) operand
AbstractBinOp(op, l, r) ==
    IF op \in {"Div", "FloorDiv", "Mod"} /\ IsZero(r) /\ l.t # "complex"
    THEN ZeroDiv
    ELSE IF l.t = "complex" \/ r.t = "complex"
    THEN IF op \in {"FloorDiv", "Mod", "MatMult"} THEN TypeErr
         ELSE IF op = "Div" /\ IsZero(r) THEN ZeroDiv
         ELSE Ret(ComplexVal)
    ELSE IF op = "MatMult" THEN TypeErr ELSE Ret(Inexact)

\* Python's binary operators on the values of the model
PyBinOp(op, l, r) ==
    CASE IsExact(l) /\ IsExact(r) -> NumBinOp(op, l, r)
      [] (IsExact(l) \/ IsAbstract(l)) /\ (IsExact(r) \/ IsAbstract(r)) ->
            AbstractBinOp(op, l, r)
      [] l.t = "str" /\ r.t = "str" /\ op = "Add" -> Ret(StrVal)
      [] l.t = "str" /\ r.t = "int" /\ op = "Mult" -> Ret(StrVal)
      [] l.t = "int" /\ r.t = "str" /\ op = "Mult" -> Ret(StrVal)
      [] OTHER -> TypeErr

\* Python's unary operators on the values of the model
PyUnaryOp(op, v) ==
    CASE IsExact(v) /\ op = "UAdd" -> Ret(v)
      [] IsExact(v) /\ op = "USub" -> Ret([v EXCEPT !.n = -v.n])
      [] v.t = "int" /\ op = "Invert" -> Ret(IntVal(-v.n - 1))
      [] IsAbstract(v) /\ op \in {"UAdd", "USub"} -> Ret(v)
      [] OTHER -> TypeErr

(***************************************************************************)
(* Tokens of the input text                                                *)
(***************************************************************************)
Tok(k) == [k |-> k, n |-> 0, d |-> 1]
Num(n) == [k |-> "num", n |-> n, d |-> 1]
\* the float literal 1.5
FloatLit == [k |-> "num", n |-> 3, d |-> 2]
StrLit == Tok("str")
NoneLit == Tok("None")
FStrLit == Tok("fstr")
NameTok == Tok("name")
Ws == Tok("ws")

SumToks == {"+", "-"}
TermToks == {"*", "/", "//", "%", "@"}
FactorToks == {"+", "-", "~"}

\* the AST class of a binary operator token
BinOpName(k) ==
    CASE k = "+" -> "Add" [] k = "-" -> "Sub" [] k = "*" -> "Mult"
      [] k = "/" -> "Div" [] k = "//" -> "FloorDiv" [] k = "%" -> "Mod"
      [] k = "**" -> "Pow" [] k = "@" -> "MatMult"

\* the AST class of a unary operator token
UnaryOpName(k) ==
    CASE k = "+" -> "UAdd" [] k = "-" -> "USub" [] k = "~" -> "Invert"

(***************************************************************************)
(* AST nodes, as ast.parse builds them                                     *)
(***************************************************************************)
NoNode == [k |-> "NoNode"]
OpNode(name) == [k |-> name]
Load == [k |-> "Load"]
Expression(body) == [k |-> "Expression", body |-> body]
Constant(v) == [k |-> "Constant", value |-> v]
BinOp(l, op, r) == [k |-> "BinOp", left |-> l, op |-> OpNode(op), right |-> r]
UnaryOp(op, x) == [k |-> "UnaryOp", op |-> OpNode(op), operand |-> x]
Name == [k |-> "Name", ctx |-> Load]
JoinedStr == [k |-> "JoinedStr"]
Call(f, args) == [k |-> "Call", func |-> f, args |-> args]
Attribute(v) == [k |-> "Attribute", value |-> v, ctx |-> Load]
Subscript(v, s) == [k |-> "Subscript", value |-> v, slice |-> s, ctx |-> Load]

\* ast.iter_child_nodes: the fields of a node that are nodes, in field order.
\* The operator of a BinOp or UnaryOp and the ctx of a Name are nodes too.
IterChildNodes(n) ==
    CASE n.k = "Expression" -> <<n.body>>
      [] n.k = "BinOp"      -> <<n.left, n.op, n.right>>
      [] n.k = "UnaryOp"    -> <<n.op, n.operand>>
      [] n.k = "Name"       -> <<n.ctx>>
      [] n.k = "Call"       -> <<n.func>> \o n.args
      [] n.k = "Attribute"  -> <<n.value, n.ctx>>
      [] n.k = "Subscript"  -> <<n.value, n.slice, n.ctx>>
      [] OTHER              -> <<>>

\* the operands of a node: its children that are expressions
Operands(n) ==
    CASE n.k = "Expression" -> <<n.body>>
      [] n.k = "BinOp"      -> <<n.left, n.right>>
      [] n.k = "UnaryOp"    -> <<n.operand>>
      [] n.k = "Call"       -> <<n.func>> \o n.args
      [] n.k = "Attribute"  -> <<n.value>>
      [] n.k = "Subscript"  -> <<n.value, n.slice>>
      [] OTHER              -> <<>>

RECURSIVE Depth(_)
RECURSIVE MaxDepth(_)
\* nesting depth of a tree: the frames a recursive walk of it needs
Depth(n) == 1 + MaxDepth(Operands(n))
MaxDepth(ns) ==
    IF ns = <<>> THEN 0
    ELSE LET h == Depth(Head(ns))
             t == MaxDepth(Tail(ns))
         IN  IF h > t THEN h ELSE t

RECURSIVE AllNodes(_)
RECURSIVE AllNodesOf(_)
\* every node of a tree (depth first), operators and contexts included
AllNodes(n) == <<n>> \o AllNodesOf(IterChildNodes(n))
AllNodesOf(ns) ==
    IF ns = <<>> THEN <<>> ELSE AllNodes(Head(ns)) \o AllNodesOf(Tail(ns))

(***************************************************************************)
(* ast.parse(expr, mode="eval") on the arithmetic part of Python's grammar *)
(*   sum:     sum ('+'|'-') term | term                                    *)
(*   term:    term ('*'|'/'|'//'|'%'|'@') factor | factor                  *)
(*   factor:  ('+'|'-'|'~') factor | power                                 *)
(*   power:   primary ['**' factor]                                        *)
(*   primary: primary '.' NAME | primary '(' [sum] ')'                     *)
(*            | primary '[' sum ']' | atom                                 *)
(*   atom:    NUMBER | STRING | FSTRING | 'None' | NAME | '(' sum ')'      *)
(***************************************************************************)
Ok(tree, pos) == [ok |-> TRUE, tree |-> tree, pos |-> pos]
Fail(pos) == [ok |-> FALSE, tree |-> NoNode, pos |-> pos]
At(ts, p, ks) == p <= Len(ts) /\ ts[p].k \in ks

\* the binary operation of token k on a parsed left operand l and the result
\* r of parsing its right operand
Join(l, k, r) ==
    IF r.ok THEN Ok(BinOp(l.tree, BinOpName(k), r.tree), r.pos) ELSE r

\* the unary operation of token k on the result x of parsing its operand
Wrap(k, x) ==
    IF x.ok THEN Ok(UnaryOp(UnaryOpName(k), x.tree), x.pos) ELSE x

\* the result e of parsing a bracketed expression, closed by token k
Close(ts, e, k) ==
    IF e.ok /\ At(ts, e.pos, {k}) THEN Ok(e.tree, e.pos + 1) ELSE Fail(e.pos)

\* the call of f on the one argument whose parse is a, closed by ')'
CloseCall(ts, f, a) ==
    IF a.ok /\ At(ts, a.pos, {")"})
    THEN Ok(Call(f, <<a.tree>>), a.pos + 1)
    ELSE Fail(a.pos)

\* the subscript of v by the expression whose parse is s, closed by ']'
CloseSubscript(ts, v, s) ==
    IF s.ok /\ At(ts, s.pos, {"]"})
    THEN Ok(Subscript(v, s.tree), s.pos + 1)
    ELSE Fail(s.pos)

RECURSIVE ParseSum(_, _)
RECURSIVE SumRest(_, _)
RECURSIVE ParseTerm(_, _)
RECURSIVE TermRest(_, _)
RECURSIVE ParseFactor(_, _)
RECURSIVE ParsePower(_, _)
RECURSIVE PowerRest(_, _)
RECURSIVE ParsePrimary(_, _)
RECURSIVE PrimaryRest(_, _)
RECURSIVE ParseAtom(_, _)

ParseSum(ts, p) == SumRest(ts, ParseTerm(ts, p))

\* l is the parse of the sum so far: left-associative
SumRest(ts, l) ==
    IF l.ok /\ At(ts, l.pos, SumToks)
    THEN SumRest(ts, Join(l, ts[l.pos].k, ParseTerm(ts, l.pos + 1)))
    ELSE l

ParseTerm(ts, p) == TermRest(ts, ParseFactor(ts, p))

\* l is the parse of the term so far: left-associative
TermRest(ts, l) ==
    IF l.ok /\ At(ts, l.pos, TermToks)
    THEN TermRest(ts, Join(l, ts[l.pos].k, ParseFactor(ts, l.pos + 1)))
    ELSE l

ParseFactor(ts, p) ==
    IF At(ts, p, FactorToks)
    THEN Wrap(ts[p].k, ParseFactor(ts, p + 1))
    ELSE ParsePower(ts, p)

ParsePower(ts, p) == PowerRest(ts, ParsePrimary(ts, p))

\* b is the parse of the base; the exponent is a factor: right-associative,
\* and it binds tighter than a unary operator on its left
PowerRest(ts, b) ==
    IF b.ok /\ At(ts, b.pos, {"**"})
    THEN Join(b, "**", ParseFactor(ts, b.pos + 1))
    ELSE b

ParsePrimary(ts, p) == PrimaryRest(ts, ParseAtom(ts, p))

\* a is the parse of the primary so far
PrimaryRest(ts, a) ==
    CASE a.ok /\ At(ts, a.pos, {"."}) ->
            IF At(ts, a.pos + 1, {"name"})
            THEN PrimaryRest(ts, Ok(Attribute(a.tree), a.pos + 2))
            ELSE Fail(a.pos + 1)
      [] a.ok /\ At(ts, a.pos, {"("}) ->
            IF At(ts, a.pos + 1, {")"})
            THEN PrimaryRest(ts, Ok(Call(a.tree, <<>>), a.pos + 2))
            ELSE PrimaryRest(ts, CloseCall(ts, a.tree, ParseSum(ts, a.pos + 1)))
      [] a.ok /\ At(ts, a.pos, {"["}) ->
            PrimaryRest(ts, CloseSubscript(ts, a.tree, ParseSum(ts, a.pos + 1)))
      [] OTHER -> a

ParseAtom(ts, p) ==
    CASE At(ts, p, {"num"}) ->
            Ok(Constant(MkNum(ts[p].d # 1, ts[p].n, ts[p].d)), p + 1)
      [] At(ts, p, {"str"})  -> Ok(Constant(StrVal), p + 1)
      [] At(ts, p, {"None"}) -> Ok(Constant(NoneVal), p + 1)
      [] At(ts, p, {"fstr"}) -> Ok(JoinedStr, p + 1)
      [] At(ts, p, {"name"}) -> Ok(Name, p + 1)
      [] At(ts, p, {"("})    -> Close(ts, ParseSum(ts, p + 1), ")")
      [] OTHER -> Fail(p)

\* the tokenizer drops the whitespace between tokens
RECURSIVE DropWs(_)
DropWs(ts) ==
    IF ts = <<>> THEN <<>>
    ELSE IF Head(ts).k = "ws" THEN DropWs(Tail(ts))
    ELSE <<Head(ts)>> \o DropWs(Tail(ts))

\* the deepest nesting of opening brackets in the text
RECURSIVE Level(_, _, _)
Level(ts, cur, best) ==
    IF ts = <<>> THEN best
    ELSE IF Head(ts).k \in {"(", "["}
         THEN Level(Tail(ts), cur + 1, IF cur + 1 > best THEN cur + 1 ELSE best)
    ELSE IF Head(ts).k \in {")", "]"} /\ cur > 0
         THEN Level(Tail(ts), cur - 1, best)
    ELSE Level(Tail(ts), cur, best)

\* the outcome of ast.parse on text ts whose tokens parsed as r: a tree,
\* SyntaxError (leading whitespace is an unexpected indent; too many nested
\* parentheses; text that is no single expression), or RecursionError when
\* the tree is nested deeper than the host allows
ParseOutcome(ts, r) ==
    IF ts # <<>> /\ Head(ts).k = "ws"
    THEN [status |-> "SyntaxError", tree |-> NoNode]
    ELSE IF Level(ts, 0, 0) > MaxLevel
    THEN [status |-> "SyntaxError", tree |-> NoNode]
    ELSE IF ~r.ok \/ r.pos # Len(DropWs(ts)) + 1
    THEN [status |-> "SyntaxError", tree |-> NoNode]
    ELSE IF Depth(Expression(r.tree)) > RecursionLimit
    THEN [status |-> "RecursionError", tree |-> NoNode]
    ELSE [status |-> "ok", tree |-> Expression(r.tree)]

\* ast.parse(expr, mode="eval")
AstParse(ts) == ParseOutcome(ts, ParseSum(DropWs(ts), 1))

(***************************************************************************)
(* _ensure_allowed: the check of one node yielded by ast.walk              *)
(***************************************************************************)
_ALLOWED_BINOP == {"Add", "Sub", "Mult", "Div", "Mod", "Pow", "FloorDiv"}
_ALLOWED_UNARYOP == {"UAdd", "USub"}

\* the body of the for loop: Running when the loop goes on to the next node
CheckNode(n) ==
    CASE n.k = "BinOp" ->
            IF n.op.k \notin _ALLOWED_BINOP
            THEN Raise("ValueError", "Disallowed binary operator: ", n.op.k)
            ELSE Running
      [] n.k = "UnaryOp" ->
            IF n.op.k \notin _ALLOWED_UNARYOP
            THEN Raise("ValueError", "Disallowed unary operator: ", n.op.k)
            ELSE Running
      [] n.k \in {"Constant", "Expression", "Load"} -> Running
      [] OTHER -> Raise("ValueError", "Disallowed expression element: ", n.k)

(***************************************************************************)
(* _eval_node: the recursive evaluator                                     *)
(***************************************************************************)
RECURSIVE _eval_node(_)
_eval_node(n) ==
    CASE n.k = "Expression" -> _eval_node(n.body)
      [] n.k = "Constant" ->
            IF n.value.t \in {"int", "float"} THEN Ret(n.value)
            ELSE Raise("ValueError", "Only numeric constants are allowed", "")
      [] n.k = "BinOp" ->
            LET left == _eval_node(n.left)
                right == _eval_node(n.right)
            IN  IF left.status = "raise" THEN left
                ELSE IF right.status = "raise" THEN right
                ELSE IF n.op.k \in {"Add", "Sub", "Mult", "Div", "FloorDiv", "Mod", "Pow"}
                THEN PyBinOp(n.op.k, left.val, right.val)
                ELSE Raise("ValueError", "Unsupported binary operator: ", n.op.k)
      [] n.k = "UnaryOp" ->
            LET operand == _eval_node(n.operand)
            IN  IF operand.status = "raise" THEN operand
                ELSE IF n.op.k \in {"UAdd", "USub"}
                THEN PyUnaryOp(n.op.k, operand.val)
                ELSE Raise("ValueError", "Unsupported unary operator: ", n.op.k)
      [] OTHER -> Raise("ValueError", "Unsupported AST node: ", n.k)

(***************************************************************************)
(* eval(compiled, {"__builtins__": {}}, {}): Python's own evaluation of    *)
(* the tree, with no name bound                                            *)
(***************************************************************************)
RECURSIVE PyEval(_)
PyEval(n) ==
    CASE n.k = "Expression" -> PyEval(n.body)
      [] n.k = "Constant" -> Ret(n.value)
      [] n.k = "JoinedStr" -> Ret(StrVal)
      [] n.k = "BinOp" ->
            LET left == PyEval(n.left)
                right == PyEval(n.right)
            IN  IF left.status = "raise" THEN left
                ELSE IF right.status = "raise" THEN right
                ELSE PyBinOp(n.op.k, left.val, right.val)
      [] n.k = "UnaryOp" ->
            LET operand == PyEval(n.operand)
            IN  IF operand.status = "raise" THEN operand
                ELSE PyUnaryOp(n.op.k, operand.val)
      [] n.k = "Name" -> Raise("NameError", "name is not defined", "")
      [] n.k \in {"Call", "Attribute", "Subscript"} ->
            LET primary == PyEval(Head(Operands(n)))
            IN  IF primary.status = "raise" THEN primary ELSE TypeErr
      [] OTHER -> TypeErr

(***************************************************************************)
(* eval_expr, step by step                                                 *)
(***************************************************************************)
\* str.strip(): the text without its leading and trailing whitespace
RECURSIVE LStrip(_)
LStrip(ts) ==
    IF ts # <<>> /\ Head(ts).k = "ws" THEN LStrip(Tail(ts)) ELSE ts

RECURSIVE RStrip(_)
RStrip(ts) ==
    IF ts # <<>> /\ ts[Len(ts)].k = "ws"
    THEN RStrip(SubSeq(ts, 1, Len(ts) - 1))
    ELSE ts

Strip(ts) == RStrip(LStrip(ts))

\* the check without strip(): only the empty text is rejected
InputRejectedUnstripped(e) == ~e.isStr \/ Len(e.toks) = 0

\* line 96: not isinstance(expr, str) or not expr.strip()
InputRejected(e) == ~e.isStr \/ Len(Strip(e.toks)) = 0

\* lines 96-97
CheckInput ==
    /\ pc = "start"
    /\ IF InputRejected(expr)
       THEN /\ outcome' = Raise("ValueError", "Expression must be a non-empty string", "")
            /\ pc' = "done"
       ELSE /\ pc' = "parse"
            /\ UNCHANGED outcome
    /\ UNCHANGED <<expr, node, todo, seen, compiled>>

\* lines 98-101, and the start of ast.walk (todo = deque([node]))
Parse ==
    /\ pc = "parse"
    /\ LET r == AstParse(expr.toks)
       IN  CASE r.status = "SyntaxError" ->
                   /\ outcome' = Raise("ValueError", "Syntax error in expression: ", "SyntaxError")
                   /\ pc' = "done"
                   /\ UNCHANGED <<node, todo>>
             [] r.status = "RecursionError" ->
                   /\ outcome' = Raise("RecursionError", "maximum recursion depth exceeded", "")
                   /\ pc' = "done"
                   /\ UNCHANGED <<node, todo>>
             [] OTHER ->
                   /\ node' = r.tree
                   /\ todo' = <<r.tree>>
                   /\ pc' = "validate"
                   /\ UNCHANGED outcome
    /\ UNCHANGED <<expr, seen, compiled>>

\* lines 37-49: one turn of the loop over ast.walk(node), which pops the
\* next node, queues its children and yields it
Walk ==
    /\ pc = "validate"
    /\ todo # <<>>
    /\ LET n == Head(todo)
           verdict == CheckNode(n)
       IN  /\ todo' = Tail(todo) \o IterChildNodes(n)
           /\ seen' = seen + 1
           /\ IF verdict.status = "raise"
              THEN outcome' = verdict /\ pc' = "done"
              ELSE UNCHANGED <<outcome, pc>>
    /\ UNCHANGED <<expr, node, compiled>>

\* evaluation that does not wait for the walk to end
ValidatedEarly ==
    /\ pc = "validate"
    /\ pc' = "compile"
    /\ UNCHANGED <<expr, node, todo, seen, compiled, outcome>>

\* line 103 returns: the walk is exhausted
Validated ==
    /\ pc = "validate"
    /\ todo = <<>>
    /\ pc' = "compile"
    /\ UNCHANGED <<expr, node, todo, seen, compiled, outcome>>

\* line 105
Compile ==
    /\ pc = "compile"
    /\ compiled' = TRUE
    /\ pc' = "eval"
    /\ UNCHANGED <<expr, node, todo, seen, outcome>>

\* lines 106-113
Eval ==
    /\ pc = "eval"
    /\ LET r == PyEval(node)
       IN  outcome' =
             IF r.status = "return" THEN r
             ELSE IF r.exc = "ZeroDivisionError"
             THEN Raise("ValueError", "Division by zero", "")
             ELSE Raise("ValueError", "Error evaluating expression: ", r.exc)
    /\ pc' = "done"
    /\ UNCHANGED <<expr, node, todo, seen, compiled>>

(***************************************************************************)
(* The inputs the model runs eval_expr on                                  *)
(***************************************************************************)
Text(ts) == [isStr |-> TRUE, toks |-> ts]
\* an argument that is no str (None, a number)
NotAStr == [isStr |-> FALSE, toks |-> <<>>]

BinToks == {"+", "-", "*", "/", "//", "%", "**", "@"}
NumAtoms == {Num(n) : n \in 0..MaxLit}
Atoms == NumAtoms \cup {FloatLit, StrLit, NoneLit, FStrLit, NameTok}

\* x(), x(1), x.y, x[1]
Primaries ==
    { <<NameTok, Tok("("), Tok(")")>>,
      <<NameTok, Tok("("), Num(1), Tok(")")>>,
      <<NameTok, Tok("."), NameTok>>,
      <<NameTok, Tok("["), Num(1), Tok("]")>> }

AtomTexts ==
    {<<a>> : a \in Atoms} \cup Primaries
        \cup {<<Tok("("), a, Tok(")")>> : a \in Atoms}

\* u a, u v a
UnaryTexts ==
    {<<Tok(u)>> \o t : u \in FactorToks, t \in AtomTexts}
        \cup {<<Tok(u), Tok(v), a>> : u \in FactorToks, v \in FactorToks,
                                      a \in {Num(2), NameTok}}

SignedOperands ==
    LET as == NumAtoms \cup {FloatLit, StrLit, NameTok}
    IN  {<<a>> : a \in as} \cup {<<Tok("-"), a>> : a \in as}

\* [-] a o [-] b
BinTexts ==
    {l \o <<Tok(o)>> \o r : o \in BinToks, l \in SignedOperands, r \in SignedOperands}

TernA == {Num(2), Num(3), StrLit, NameTok}
TernC == {Num(0), Num(2), NameTok}

\* a o b p c, (a o b) p c, a o (b p c)
TernTexts ==
    UNION { { <<a, Tok(o), b, Tok(q), c>>,
              <<Tok("("), a, Tok(o), b, Tok(")"), Tok(q), c>>,
              <<a, Tok(o), Tok("("), b, Tok(q), c, Tok(")")>> }
            : a \in TernA, b \in TernA, c \in TernC,
              o \in BinToks, q \in BinToks }

\* the expressions the documentation gives: 2 + 3 * 4, (2 + 3) * 4,
\* 2 ** 3 ** 2, -3 + 4, 7 // 2, 7 % -2, 1/0, 5 % 0, 7 // 0, 2 +
Ex_2p3m4 == <<Num(2), Ws, Tok("+"), Ws, Num(3), Ws, Tok("*"), Ws, Num(4)>>
Ex_p2p3m4 == <<Tok("("), Num(2), Ws, Tok("+"), Ws, Num(3), Tok(")"), Ws, Tok("*"), Ws, Num(4)>>
Ex_2pow3pow2 == <<Num(2), Ws, Tok("**"), Ws, Num(3), Ws, Tok("**"), Ws, Num(2)>>
Ex_m3p4 == <<Tok("-"), Num(3), Ws, Tok("+"), Ws, Num(4)>>

DocTexts ==
    { Ex_2p3m4, Ex_p2p3m4, Ex_2pow3pow2, Ex_m3p4,
      <<Num(7), Ws, Tok("//"), Ws, Num(2)>>,
      <<Num(7), Ws, Tok("%"), Ws, Tok("-"), Num(2)>>,
      <<Num(1), Tok("/"), Num(0)>>,
      <<Num(5), Ws, Tok("%"), Ws, Num(0)>>,
      <<Num(7), Ws, Tok("//"), Ws, Num(0)>>,
      <<Num(2), Ws, Tok("+")>> }

\* empty, blank, padded and malformed text
OddTexts ==
    { <<>>, <<Ws>>, <<Ws, Ws, Ws>>, <<Ws, Num(1)>>, <<Num(1), Ws>>,
      <<Num(2), Num(3)>>, <<Tok(")")>>, <<Tok("("), Num(2)>>, <<Tok("+")>>,
      <<Num(2), Tok("**")>>, <<Tok("("), Tok("+"), Tok(")")>>,
      <<NameTok, Tok(".")>> }

RECURSIVE Minuses(_, _)
\* k unary minus signs before the text ts
Minuses(k, ts) == IF k = 0 THEN ts ELSE <<Tok("-")>> \o Minuses(k - 1, ts)

RECURSIVE Parens(_, _)
\* the text ts within k pairs of parentheses
Parens(k, ts) ==
    IF k = 0 THEN ts ELSE <<Tok("(")>> \o Parens(k - 1, ts) \o <<Tok(")")>>

\* text nested up to just beyond what the host accepts
DeepTexts ==
    {Minuses(k, <<Num(1)>>) : k \in 1..(RecursionLimit + 1)}
        \cup {Parens(k, <<Num(1)>>) : k \in 1..(MaxLevel + 1)}
        \cup {Parens(k, <<NameTok>>) : k \in 1..(MaxLevel + 1)}

Texts ==
    AtomTexts \cup UnaryTexts \cup BinTexts \cup TernTexts \cup DocTexts
        \cup OddTexts \cup DeepTexts

Inputs == {Text(ts) : ts \in Texts} \cup {NotAStr}

(***************************************************************************)
(* eval_expr(expr)                                                         *)
(***************************************************************************)
Init ==
    /\ expr \in Inputs
    /\ pc = "start"
    /\ node = NoNode
    /\ todo = <<>>
    /\ seen = 0
    /\ compiled = FALSE
    /\ outcome = Running

Next == CheckInput \/ Parse \/ Walk \/ Validated \/ Compile \/ Eval

Spec == Init /\ [][Next]_vars

(***************************************************************************)
(* _eval_node(node), called on the trees ast.parse builds                  *)
(***************************************************************************)
InitEvalNode ==
    /\ expr \in {e \in Inputs : e.isStr /\ AstParse(e.toks).status = "ok"}
    /\ pc = "call"
    /\ node = AstParse(expr.toks).tree
    /\ todo = <<>>
    /\ seen = 0
    /\ compiled = FALSE
    /\ outcome = Running

EvalNode ==
    /\ pc = "call"
    /\ outcome' = _eval_node(node)
    /\ pc' = "returned"
    /\ UNCHANGED <<expr, node, todo, seen, compiled>>

NextEvalNode == EvalNode

SpecEvalNode == InitEvalNode /\ [][NextEvalNode]_vars

(***************************************************************************)
(* Vocabulary of the properties                                            *)
(***************************************************************************)
Done == pc = "done"

\* eval_expr raised ValueError with message prefix m
Failed(m) ==
    /\ Done
    /\ outcome.status = "raise"
    /\ outcome.exc = "ValueError"
    /\ outcome.msg = m

DisallowedMsgs ==
    { "Disallowed binary operator: ", "Disallowed unary operator: ",
      "Disallowed expression element: " }

\* the parser accepted the text and built `node`
HasTree == node.k = "Expression"

RECURSIVE ExprNodes(_)
RECURSIVE ExprNodesOf(_)
\* the expression nodes of a tree: operator and context fields left out
ExprNodes(n) == <<n>> \o ExprNodesOf(Operands(n))
ExprNodesOf(ns) ==
    IF ns = <<>> THEN <<>> ELSE ExprNodes(Head(ns)) \o ExprNodesOf(Tail(ns))

RECURSIVE TreeSize(_)
\* the number of nodes of a tree, counted field by field
TreeSize(n) ==
    CASE n.k = "Expression" -> 1 + TreeSize(n.body)
      [] n.k = "BinOp"      -> 2 + TreeSize(n.left) + TreeSize(n.right)
      [] n.k = "UnaryOp"    -> 2 + TreeSize(n.operand)
      [] n.k = "Name"       -> 2
      [] n.k = "Attribute"  -> 2 + TreeSize(n.value)
      [] n.k = "Subscript"  -> 2 + TreeSize(n.value) + TreeSize(n.slice)
      [] n.k = "Call"       ->
            1 + TreeSize(n.func)
              + (IF n.args = <<>> THEN 0 ELSE TreeSize(Head(n.args)))
      [] OTHER -> 1

\* a node of the arithmetic grammar: the wrapper, a number, an allowed
\* binary or unary operation
ArithmeticNode(n) ==
    \/ n.k = "Expression"
    \/ n.k = "Constant" /\ n.value.t \in {"int", "float"}
    \/ n.k = "BinOp" /\ n.op.k \in {"Add", "Sub", "Mult", "Div", "FloorDiv", "Mod", "Pow"}
    \/ n.k = "UnaryOp" /\ n.op.k \in {"UAdd", "USub"}

\* every node of the tree is of the arithmetic grammar
Arithmetic(tree) ==
    \A i \in 1..Len(ExprNodes(tree)) : ArithmeticNode(ExprNodes(tree)[i])

\* a name, call, attribute access, subscript, f-string or a literal that
\* is no number
NonArithmeticElement(n) ==
    \/ n.k \in {"Name", "Call", "Attribute", "Subscript", "JoinedStr"}
    \/ n.k = "Constant" /\ n.value.t \notin {"int", "float"}

\* a binary or unary operation whose operator is not allowed
DisallowedOperation(n) ==
    \/ n.k = "BinOp" /\ n.op.k \notin {"Add", "Sub", "Mult", "Div", "FloorDiv", "Mod", "Pow"}
    \/ n.k = "UnaryOp" /\ n.op.k \notin {"UAdd", "USub"}

\* a division, floor division or modulo whose operands evaluate and whose
\* right operand is zero
DividesByZero(n) ==
    /\ n.k = "BinOp"
    /\ n.op.k \in {"Div", "FloorDiv", "Mod"}
    /\ PyEval(n.left).status = "return"
    /\ PyEval(n.right).status = "return"
    /\ IsZero(PyEval(n.right).val)

(***************************************************************************)
(* Properties                                                              *)
(***************************************************************************)

\* C1: for every expression built only from numeric literals, the binary
\* operators + - * / // % **, unary + and -, and parentheses, with no zero
\* divisor, eval_expr returns (it does not raise) the arithmetic value of
\* the expression under standard precedence and associativity:
\* 2 + 3 * 4 gives 14, (2 + 3) * 4 gives 20, 2 ** 3 ** 2 gives 512.
C1_ArithmeticValue ==
    Done /\ HasTree /\ Arithmetic(node) /\ PyEval(node).status = "return"
      => /\ outcome = PyEval(node)
         /\ expr.toks = Ex_2p3m4 => outcome = Ret(IntVal(14))
         /\ expr.toks = Ex_p2p3m4 => outcome = Ret(IntVal(20))
         /\ expr.toks = Ex_2pow3pow2 => outcome = Ret(IntVal(512))

\* C2: an expression whose tree holds a name, a call, an attribute access,
\* a subscript or any other non-arithmetic construct, anywhere in it, fails
\* with the disallowed-element error and returns no value.
C2_NonArithmeticRejected ==
    Done /\ HasTree
         /\ (\E i \in 1..Len(ExprNodes(node)) : NonArithmeticElement(ExprNodes(node)[i]))
      => Failed("Disallowed expression element: ")

\* C3: once _ensure_allowed has returned without raising, every node of the
\* tree is the wrapper, a literal that is an int or a float, or a binary or
\* unary operation with an allowed operator; a tree holding a literal that
\* is no number never reaches evaluation.
C3_ValidatedTreeIsArithmetic ==
    HasTree /\ (pc \in {"compile", "eval"} \/ compiled) => Arithmetic(node)

\* C4: validation visits every node of the tree and finishes before any
\* evaluation step (compile, eval) starts, and no evaluation step is ever
\* taken for a tree that validation rejects.
C4_ValidationBeforeEvaluation ==
    /\ pc \in {"compile", "eval"} \/ compiled
         => /\ todo = <<>>
            /\ seen = TreeSize(node)
            /\ \A i \in 1..Len(AllNodes(node)) :
                  CheckNode(AllNodes(node)[i]).status # "raise"
    /\ Done /\ outcome.msg \in DisallowedMsgs
         => ~compiled /\ outcome.status = "raise" /\ outcome.val = NoVal

\* a validated tree whose evaluation has started
C4_Witness ==
    pc = "eval" /\ compiled /\ todo = <<>> /\ seen = TreeSize(node) /\ seen > 1

\* C5: every failure of eval_expr, whichever stage produces it, reaches the
\* caller as ValueError; no other kind of exception escapes.
C5_OnlyValueError ==
    Done /\ outcome.status = "raise" => outcome.exc = "ValueError"

\* C6: an expression in which /, // or % is applied to a right operand that
\* evaluates to zero (1/0, 5 % 0, 7 // 0) fails with the division-by-zero
\* error (ValueError "Division by zero"), with no other cause and no value.
C6_DivisionByZero ==
    Done /\ HasTree /\ Arithmetic(node)
         /\ (\E i \in 1..Len(ExprNodes(node)) : DividesByZero(ExprNodes(node)[i]))
      => Failed("Division by zero")

\* the text is empty or holds only whitespace
Blank(e) == e.isStr /\ \A i \in 1..Len(e.toks) : e.toks[i].k = "ws"

\* C7: for input that is empty or only whitespace, eval_expr fails with the
\* empty-input error before the parser is called: no parse, validation or
\* evaluation step is ever taken.
C7_BlankNeverParsed ==
    Blank(expr)
      => /\ pc \in {"start", "done"}
         /\ ~HasTree /\ todo = <<>> /\ seen = 0 /\ ~compiled
         /\ Done => outcome = Raise("ValueError", "Expression must be a non-empty string", "")

\* whitespace-only text, rejected
C7_Witness ==
    /\ Blank(expr) /\ Len(expr.toks) > 1
    /\ Failed("Expression must be a non-empty string")

\* the text nests deeper than the host's limits
TooDeep(e) ==
    \/ Level(e.toks, 0, 0) > MaxLevel
    \/ LET r == ParseSum(DropWs(e.toks), 1)
       IN  r.ok /\ Depth(Expression(r.tree)) > RecursionLimit

\* a ValueError of eval_expr that is none of its other causes
ResourceLimitError ==
    /\ outcome.status = "raise"
    /\ outcome.exc = "ValueError"
    /\ outcome.msg \notin
         DisallowedMsgs \cup
           { "Expression must be a non-empty string", "Syntax error in expression: ",
             "Division by zero", "Error evaluating expression: " }

\* C8: eval_expr is bounded by a resource limit: an expression nested
\* deeper than the maximum depth is rejected with a resource-limit error.
C8_DepthLimit ==
    Done /\ expr.isStr /\ ~Blank(expr) /\ TooDeep(expr) => ResourceLimitError

\* C9: when the tree holds a binary or unary operation whose operator is
\* not allowed, and no other disallowed kind of node, validation fails with
\* the disallowed-operator error naming that operator, not with the
\* disallowed-element error.
C9_DisallowedOperatorNamed ==
    LET ns == ExprNodes(node)
    IN  Done /\ HasTree
             /\ (\E i \in 1..Len(ns) : DisallowedOperation(ns[i]))
             /\ (\A i \in 1..Len(ns) :
                    ns[i].k \in {"Expression", "Constant", "BinOp", "UnaryOp"})
          => /\ outcome.status = "raise"
             /\ outcome.exc = "ValueError"
             /\ outcome.msg \in {"Disallowed binary operator: ", "Disallowed unary operator: "}
             /\ \E i \in 1..Len(ns) :
                    DisallowedOperation(ns[i]) /\ ns[i].op.k = outcome.arg

\* an int literal, possibly signed
IntOperand(n) ==
    \/ n.k = "Constant" /\ n.value.t = "int"
    \/ /\ n.k = "UnaryOp"
       /\ n.op.k \in {"UAdd", "USub"}
       /\ n.operand.k = "Constant"
       /\ n.operand.value.t = "int"

IntOf(n) ==
    IF n.k = "Constant" THEN n.value.n
    ELSE IF n.op.k = "USub" THEN -n.operand.value.n
    ELSE n.operand.value.n

\* _eval_node has returned from a tree `l op r` on ints, r # 0
IntDivision(op) ==
    /\ pc = "returned"
    /\ node.body.k = "BinOp"
    /\ node.body.op.k = op
    /\ IntOperand(node.body.left)
    /\ IntOperand(node.body.right)
    /\ IntOf(node.body.right) # 0

\* q is the floor of l / r
IsFloorOf(q, l, r) ==
    IF r > 0 THEN q * r <= l /\ l < (q + 1) * r
    ELSE q * r >= l /\ l > (q + 1) * r

\* C10: for all ints l and r # 0, the evaluator's FloorDiv yields the floor
\* of l / r, an int, and its Mod a remainder that is zero or has the sign of
\* r, so that l = (l // r) * r + (l % r): 7 // 2 = 3 and 7 % -2 = -1.
C10_FloorDivMod ==
    LET l == IntOf(node.body.left)
        r == IntOf(node.body.right)
        v == outcome.val
        q == _eval_node(BinOp(node.body.left, "FloorDiv", node.body.right)).val.n
    IN  /\ IntDivision("FloorDiv")
             => /\ outcome.status = "return"
                /\ v.t = "int" /\ v.d = 1
                /\ IsFloorOf(v.n, l, r)
                /\ l = 7 /\ r = 2 => v.n = 3
        /\ IntDivision("Mod")
             => /\ outcome.status = "return"
                /\ v.t = "int" /\ v.d = 1
                /\ v.n = 0 \/ Sign(v.n) = Sign(r)
                /\ Abs(v.n) < Abs(r)
                /\ l = q * r + v.n
                /\ l = 7 /\ r = -2 => v.n = -1

\* 7 % -2 has returned -1
C10_Witness ==
    /\ IntDivision("Mod")
    /\ IntOf(node.body.left) = 7
    /\ IntOf(node.body.right) = -2
    /\ outcome = Ret(IntVal(-1))

====
